---------------------------- MODULE Spec2Model ----------------------------
(***************************************************************************)
(* Model of the M4A-to-subtitle tools:                                     *)
(*   - render-create-m4a-to-srt/app.py and app_fallback.py: the converter  *)
(*     class (word grouping, SRT timecodes, SRT rendering), the upload     *)
(*     service around it, and the transcription step (whisper, then the    *)
(*     silence-based fallback);                                            *)
(*   - create-subtitles/subtitles.py: segment splitting and the FCPXML     *)
(*     timeline renderer.                                                  *)
(*                                                                         *)
(* Text is a sequence of one-character strings.  Arithmetic on seconds is  *)
(* exact (rational): a converter time is a record [s, f] of whole seconds  *)
(* and a fraction in units of 1/FracPerSecond s; IEEE-754 rounding of the  *)
(* Python floats is not modelled.                                          *)
(***************************************************************************)
EXTENDS Integers, Sequences, FiniteSets, TLC

VARIABLES
    \* --- converter (app.py / app_fallback.py, class M4AToSRTConverter) ---
    words_with_timing,  \* argument of group_words_into_subtitles
    max_words,          \* self.max_words
    pc,                 \* position of the running program
    idx,                \* position of the running for loop (1-based)
    current_group,      \* local of group_words_into_subtitles
    subtitles,          \* list built by the grouper, read by the renderer
    srt_content,        \* string built by create_srt_content
    \* --- timeline script (create-subtitles/subtitles.py) ---
    segments,           \* result['segments'] of the transcription
    max_words_per_subtitle, \* MAX_WORDS_PER_SUBTITLE
    framerate,          \* FRAMERATE
    tl_pc,              \* position of the script
    tl_idx,             \* position of the running for loop (1-based)
    tl_subtitles,       \* list returned by split_into_subtitles
    fcpxml,             \* the element tree built by create_fcpxml
    \* --- upload service (app.py, module level) ---
    processing_status,  \* dict job_id -> status record
    completed_files,    \* dict job_id -> result record, in insertion order
    thread,             \* per job: position of its process_audio thread, its
                        \* locals, and (history) when it wrote a final status
    temp_files,         \* uploaded temporary files on disk (by job)
    wav_files,          \* temporary WAV files on disk (by job)
    next_job_id,        \* the next fresh uuid
    now,                \* time.time(), in units of 1800 s
    response,           \* the HTTP exchange of the step just taken, if any
    cleanup_pc,         \* position of the periodic_cleanup thread
    cleanup_time,       \* current_time of cleanup_old_files
    cleanup_size,       \* size of completed_files when its iterator was made
    cleanup_pos,        \* position of that iterator
    to_remove,          \* to_remove of cleanup_old_files
    wake,               \* when the sleep of periodic_cleanup ends
    \* --- transcription step (app.py / app_fallback.py) ---
    program,            \* the file whose converter runs
    whisper_available,  \* module flag of app_fallback.py (line 52)
    whisper_run,        \* what the whisper subprocess does for this file
    audio_loads,        \* whether pydub can load the file for the fallback
    chunks,             \* chunks of the fallback, after lines 147-148
    tr_pc,              \* position of the transcription step
    chunk_i,            \* i of the fallback's for loop (0-based, enumerate)
    current_time,       \* current_time of the fallback, in milliseconds
    fallback_words,     \* words_with_timing of the fallback
    fallback_called,    \* (history) transcribe_audio_fallback was called
    returned,           \* what the transcription step gives process_audio
    job_status          \* the status process_audio writes for the job

convVars == <<words_with_timing, max_words, pc, idx, current_group,
              subtitles, srt_content>>

tlVars == <<segments, max_words_per_subtitle, framerate, tl_pc, tl_idx,
            tl_subtitles, fcpxml>>

svcVars == <<processing_status, completed_files, thread, temp_files, wav_files,
             next_job_id, now, response, cleanup_pc, cleanup_time,
             cleanup_size, cleanup_pos, to_remove, wake>>

trVars == <<program, whisper_available, whisper_run, audio_loads, chunks,
            tr_pc, chunk_i, current_time, fallback_words, fallback_called,
            returned, job_status>>

vars == <<convVars, tlVars, svcVars, trVars>>

-----------------------------------------------------------------------------
(* Bounds of the model *)

\* longest word list given to the grouper
MaxUnits == 3
\* most segments in a transcription given to the timeline script
MaxSegments == 2
\* most uploads accepted by the service
MaxJobs == 1
\* last instant of the service clock, in units of 1800 s (defined with the
\* service: the first instant at which a result stored at 0 is swept)
\* largest max_words tried (the smallest is MinMaxWords)
MaxK == 3

-----------------------------------------------------------------------------
(* Python built-ins used by the code *)

Digits == <<"0", "1", "2", "3", "4", "5", "6", "7", "8", "9">>

Whitespace == {" ", "\n", "\t"}

\* str(n) / f"{n}" for an int
RECURSIVE IntToStr(_)
IntToStr(n) ==
    IF n < 0 THEN <<"-">> \o IntToStr(-n)
    ELSE IF n < 10 THEN <<Digits[n + 1]>>
    ELSE IntToStr(n \div 10) \o <<Digits[(n % 10) + 1]>>

\* f"{n:0<w>d}": the sign counts in the width, zeros go after it
RECURSIVE PadLeft(_, _)
PadLeft(str, w) == IF Len(str) >= w THEN str ELSE PadLeft(<<"0">> \o str, w)

ZeroPad(n, w) ==
    IF n < 0 THEN <<"-">> \o PadLeft(IntToStr(-n), w - 1)
    ELSE PadLeft(IntToStr(n), w)

\* sep.join(strs)
RECURSIVE Join(_, _)
Join(strs, sep) ==
    IF strs = <<>> THEN <<>>
    ELSE IF Len(strs) = 1 THEN strs[1]
    ELSE strs[1] \o sep \o Join(Tail(strs), sep)

\* str.strip(): leading and trailing whitespace removed
RECURSIVE LStrip(_)
LStrip(str) ==
    IF str # <<>> /\ str[1] \in Whitespace THEN LStrip(Tail(str)) ELSE str

RECURSIVE RStrip(_)
RStrip(str) ==
    IF str # <<>> /\ str[Len(str)] \in Whitespace
    THEN RStrip(SubSeq(str, 1, Len(str) - 1))
    ELSE str

Strip(str) == RStrip(LStrip(str))

\* str.split(): the maximal runs of non-whitespace characters
RECURSIVE SplitFrom(_, _, _)
SplitFrom(str, cur, acc) ==
    IF str = <<>> THEN (IF cur = <<>> THEN acc ELSE Append(acc, cur))
    ELSE IF str[1] \in Whitespace
         THEN SplitFrom(Tail(str), <<>>,
                        IF cur = <<>> THEN acc ELSE Append(acc, cur))
         ELSE SplitFrom(Tail(str), Append(cur, str[1]), acc)

Split(str) == SplitFrom(str, <<>>, <<>>)

\* int(x) of the quotient a / b, b > 0: truncation toward zero
TruncDiv(a, b) == IF a >= 0 THEN a \div b ELSE -((-a) \div b)

\* math.floor / math.ceil of the quotient a / b, b > 0
FloorDiv(a, b) == a \div b
CeilDiv(a, b) == -((-a) \div b)

\* round(a / b) as timedelta rounds microseconds: half to even, a >= 0, b > 0
RoundHalfEven(a, b) ==
    LET q == a \div b
        r == a % b
    IN  IF 2 * r < b THEN q
        ELSE IF 2 * r > b THEN q + 1
        ELSE IF q % 2 = 0 THEN q ELSE q + 1

-----------------------------------------------------------------------------
(* Converter times *)

\* units of the fraction f of a time [s, f]: 1e-7 s
FracPerSecond == 10000000
\* timedelta resolution: microseconds per second
MicroPerSecond == 1000000

Time(s, f) == [s |-> s, f |-> f]

TimeLeq(a, b) == a.s < b.s \/ (a.s = b.s /\ a.f <= b.f)


-----------------------------------------------------------------------------
(* class M4AToSRTConverter / SimpleM4AToSRTConverter *)

\* (mutant) off by one: the group is closed one word late
ShouldCloseLate(group, k) == Len(group) > k

\* the test of line 214: the current group is closed once it holds max_words
ShouldClose(group, k) == Len(group) >= k

\* (mutant) the text keeps only the first word of the group
MakeSubtitleFirstWordOnly(group) ==
    [text       |-> Strip(group[1].word),
     start_time |-> group[1].start,
     end_time   |-> group[Len(group)].end]

\* (mutant) the end is taken from the first unit instead of the last
MakeSubtitleEndOfFirst(group) ==
    [text       |-> Strip(Join([j \in 1..Len(group) |-> group[j].word], <<" ">>)),
     start_time |-> group[1].start,
     end_time   |-> group[1].end]

\* (mutant) the start is taken from the last unit and the end from the first
MakeSubtitleSwapped(group) ==
    [text       |-> Strip(Join([j \in 1..Len(group) |-> group[j].word], <<" ">>)),
     start_time |-> group[Len(group)].start,
     end_time   |-> group[1].end]

\* the subtitle built from a closed group (lines 216-224 and 230-238)
MakeSubtitle(group) ==
    [text       |-> Strip(Join([j \in 1..Len(group) |-> group[j].word], <<" ">>)),
     start_time |-> group[1].start,
     end_time   |-> group[Len(group)].end]

\* seconds_to_srt_time: HH:MM:SS,mmm
SecondsToSrtTime(seconds) ==
    LET \* timedelta(seconds=seconds) keeps whole microseconds, rounded
        td_micro == RoundHalfEven(seconds.f, FracPerSecond \div MicroPerSecond)
        \* int(td.total_seconds())
        total_seconds == seconds.s + (td_micro \div MicroPerSecond)
        hours == total_seconds \div 3600
        minutes == (total_seconds % 3600) \div 60
        secs == total_seconds % 60
        \* int((seconds - total_seconds) * 1000)
        milliseconds ==
            TruncDiv((seconds.s - total_seconds) * FracPerSecond + seconds.f,
                     FracPerSecond \div 1000)
    IN  ZeroPad(hours, 2) \o <<":">> \o ZeroPad(minutes, 2) \o <<":">>
            \o ZeroPad(secs, 2) \o <<",">> \o ZeroPad(milliseconds, 3)

\* (mutant) enumerate(subtitles) without the start of 1: numbering from 0
SrtBlockFromZero(i, subtitle) ==
    IntToStr(i - 1) \o <<"\n">>
        \o SecondsToSrtTime(subtitle.start_time) \o <<" ", "-", "-", ">", " ">>
        \o SecondsToSrtTime(subtitle.end_time) \o <<"\n">>
        \o subtitle.text \o <<"\n", "\n">>

\* the three += of one iteration of create_srt_content (lines 258-263)
SrtBlock(i, subtitle) ==
    IntToStr(i) \o <<"\n">>
        \o SecondsToSrtTime(subtitle.start_time) \o <<" ", "-", "-", ">", " ">>
        \o SecondsToSrtTime(subtitle.end_time) \o <<"\n">>
        \o subtitle.text \o <<"\n", "\n">>

\* (mutant) the empty list yields one subtitle without text
GroupEmptyOneBlank ==
    /\ pc = "group"
    /\ words_with_timing = <<>>
    /\ pc' = "srt"
    /\ idx' = 1
    /\ subtitles' = <<[text |-> <<>>, start_time |-> Time(0, 0),
                       end_time |-> Time(0, 0)]>>
    /\ UNCHANGED <<words_with_timing, max_words, current_group, srt_content>>
    /\ UNCHANGED <<tlVars, svcVars, trVars>>

\* group_words_into_subtitles, lines 204-205: the empty list returns at once
GroupEmpty ==
    /\ pc = "group"
    /\ words_with_timing = <<>>
    /\ pc' = "srt"
    /\ idx' = 1
    /\ UNCHANGED <<words_with_timing, max_words, current_group, subtitles,
                   srt_content>>
    /\ UNCHANGED <<tlVars, svcVars, trVars>>

\* one iteration of the for loop of lines 210-226
GroupLoop ==
    /\ pc = "group"
    /\ words_with_timing # <<>>
    /\ idx <= Len(words_with_timing)
    /\ LET appended == Append(current_group, words_with_timing[idx])
       IN  IF ShouldClose(appended, max_words)
           THEN /\ subtitles' = (IF appended # <<>>
                                 THEN Append(subtitles, MakeSubtitle(appended))
                                 ELSE subtitles)
                /\ current_group' = <<>>
           ELSE /\ current_group' = appended
                /\ subtitles' = subtitles
    /\ idx' = idx + 1
    /\ UNCHANGED <<words_with_timing, max_words, pc, srt_content>>
    /\ UNCHANGED <<tlVars, svcVars, trVars>>

\* lines 228-240: the remaining words become the last subtitle; return
GroupRemaining ==
    /\ pc = "group"
    /\ words_with_timing # <<>>
    /\ idx > Len(words_with_timing)
    /\ subtitles' = (IF current_group # <<>>
                     THEN Append(subtitles, MakeSubtitle(current_group))
                     ELSE subtitles)
    /\ pc' = "srt"
    /\ idx' = 1
    /\ UNCHANGED <<words_with_timing, max_words, current_group, srt_content>>
    /\ UNCHANGED <<tlVars, svcVars, trVars>>

\* one iteration of the for loop of create_srt_content (lines 257-263)
CreateSrtLoop ==
    /\ pc = "srt"
    /\ idx <= Len(subtitles)
    /\ srt_content' = srt_content \o SrtBlock(idx, subtitles[idx])
    /\ idx' = idx + 1
    /\ UNCHANGED <<words_with_timing, max_words, pc, current_group, subtitles>>
    /\ UNCHANGED <<tlVars, svcVars, trVars>>

\* line 265: return srt_content
CreateSrtReturn ==
    /\ pc = "srt"
    /\ idx > Len(subtitles)
    /\ pc' = "done"
    /\ UNCHANGED <<words_with_timing, max_words, idx, current_group, subtitles,
                   srt_content>>
    /\ UNCHANGED <<tlVars, svcVars, trVars>>

-----------------------------------------------------------------------------
(* Inputs of the converter *)

\* the placeholder word of app_fallback.py line 209 for chunk i (0-based)
AudioChunkWord(i) ==
    <<"[", "A", "u", "d", "i", "o", " ", "c", "h", "u", "n", "k", " ">>
        \o IntToStr(i + 1) \o <<"]">>

UnitWords == {<<"h", "i">>, AudioChunkWord(0)}

TimePoints ==
    {Time(1, 5000000), Time(1, 9996000), Time(3725, 9999996)}

Units ==
    {u \in [word : UnitWords, start : TimePoints, end : TimePoints] :
        TimeLeq(u.start, u.end)}

\* the transcription contract: 0 <= start <= end, starts non-decreasing
MeetsContract(ws) ==
    \A j \in 1..(Len(ws) - 1) : TimeLeq(ws[j].start, ws[j + 1].start)

\* the scenario of the specification: hello / world / foo
HelloWorldFoo ==
    << [word |-> <<"h", "e", "l", "l", "o">>,
        start |-> Time(0, 0), end |-> Time(0, 5000000)],
       [word |-> <<"w", "o", "r", "l", "d">>,
        start |-> Time(0, 5000000), end |-> Time(1, 0)],
       [word |-> <<"f", "o", "o">>,
        start |-> Time(1, 0), end |-> Time(1, 2000000)] >>

\* the scenario of the specification: hi from 1.5 to 2.25
Hi ==
    << [word |-> <<"h", "i">>,
        start |-> Time(1, 5000000), end |-> Time(2, 2500000)] >>

WordLists ==
    {ws \in UNION {[1..n -> Units] : n \in 0..MaxUnits} : MeetsContract(ws)}
        \cup {HelloWorldFoo, Hi}

\* max_words: the constructor takes any int; the upload handler admits 1..20
MaxWordsValues == {-1, 0} \cup (1..MaxK)

\* the timeline script is not running
TimelineIdle ==
    /\ segments = <<>>
    /\ max_words_per_subtitle = 0
    /\ framerate = 0
    /\ tl_pc = "idle"
    /\ tl_idx = 0
    /\ tl_subtitles = <<>>
    /\ fcpxml = <<>>

\* the converter is not running
ConverterIdle ==
    /\ words_with_timing = <<>>
    /\ max_words = 0
    /\ pc = "idle"
    /\ idx = 0
    /\ current_group = <<>>
    /\ subtitles = <<>>
    /\ srt_content = <<>>

\* the service is not running
ServiceIdle ==
    /\ processing_status = <<>>
    /\ completed_files = <<>>
    /\ thread = <<>>
    /\ temp_files = {}
    /\ wav_files = {}
    /\ next_job_id = 0
    /\ now = 0
    /\ response = [op |-> "none"]
    /\ cleanup_pc = "idle"
    /\ cleanup_time = 0
    /\ cleanup_size = 0
    /\ cleanup_pos = 0
    /\ to_remove = <<>>
    /\ wake = 0

\* the transcription step is not running
TranscriberIdle ==
    /\ program = "none"
    /\ whisper_available = FALSE
    /\ whisper_run = [outcome |-> "none", words |-> <<>>]
    /\ audio_loads = FALSE
    /\ chunks = <<>>
    /\ tr_pc = "idle"
    /\ chunk_i = 0
    /\ current_time = 0
    /\ fallback_words = <<>>
    /\ fallback_called = FALSE
    /\ returned = [kind |-> "pending", words |-> <<>>]
    /\ job_status = [status |-> "none"]

Init ==
    /\ words_with_timing \in WordLists
    /\ max_words \in MaxWordsValues
    /\ pc = "group"
    /\ idx = 1
    /\ current_group = <<>>
    /\ subtitles = <<>>
    /\ srt_content = <<>>
    /\ TimelineIdle
    /\ ServiceIdle
    /\ TranscriberIdle

Next ==
    \/ GroupEmpty
    \/ GroupLoop
    \/ GroupRemaining
    \/ CreateSrtLoop
    \/ CreateSrtReturn

Spec == Init /\ [][Next]_vars


-----------------------------------------------------------------------------
(* create-subtitles/subtitles.py *)

\* MAX_WORDS_PER_SUBTITLE and FRAMERATE as shipped ("User configurable")
MAX_WORDS_PER_SUBTITLE == 4
FRAMERATE == 30

\* a time of the script: the rational n / d milliseconds, d > 0
Rat(n, d) == [n |-> n, d |-> d]

\* line 26: words = seg['text'].strip().split()
SegWords(seg) == Split(Strip(seg.text))

\* line 27: num_splits = math.ceil(len(words) / max_words), max_words > 0
NumSplits(seg, mw) == CeilDiv(Len(SegWords(seg)), mw)

\* words[lo:hi] for 0 <= lo <= hi
Slice(seq, lo, hi) == SubSeq(seq, lo + 1, IF hi <= Len(seq) THEN hi ELSE Len(seq))

\* (mutant) the sub-segment bounds are spread over max_words, not num_splits
SubSegmentOverMaxWords(seg, mw, i) ==
    [start |-> Rat(seg.start * mw + i * (seg.end - seg.start), mw),
     end   |-> Rat(seg.start * mw + (i + 1) * (seg.end - seg.start), mw),
     text  |-> Join(Slice(SegWords(seg), i * mw, (i + 1) * mw), <<" ">>)]

\* lines 29-36: sub-segment i (0-based) of a segment
SubSegment(seg, mw, i) ==
    LET num_splits == NumSplits(seg, mw)
    IN  [start |-> Rat(seg.start * num_splits + i * (seg.end - seg.start),
                       num_splits),
         end   |-> Rat(seg.start * num_splits + (i + 1) * (seg.end - seg.start),
                       num_splits),
         text  |-> Join(Slice(SegWords(seg), i * mw, (i + 1) * mw), <<" ">>)]

\* lines 28-36: the sub-segments of one segment, for i in range(num_splits)
SubSegments(seg, mw) ==
    LET num_splits == NumSplits(seg, mw)
    IN  IF num_splits <= 0 THEN <<>>
        ELSE [j \in 1..num_splits |-> SubSegment(seg, mw, j - 1)]

\* int(x * framerate) for the time x = r seconds
Frames(r, fr) == TruncDiv(r.n * fr, r.d * 1000)

\* r1 - r2
RatMinus(r1, r2) == Rat(r1.n * r2.d - r2.n * r1.d, r1.d * r2.d)

\* f"{frames}/{framerate}s"
RationalTime(frames, fr) == IntToStr(frames) \o <<"/">> \o IntToStr(fr) \o <<"s">>

\* (mutant) the duration is computed from the end alone
TitleDurationFromEnd(sub, fr) ==
    [name |-> "Subtitle", lane |-> "1",
     offset |-> RationalTime(Frames(sub.start, fr), fr),
     duration |-> RationalTime(Frames(sub.end, fr), fr),
     start |-> RationalTime(Frames(sub.start, fr), fr),
     role |-> "title", ref |-> "r2",
     text |-> sub.text]

\* lines 63-80: the title element of one subtitle
Title(sub, fr) ==
    LET duration_frames == Frames(RatMinus(sub.end, sub.start), fr)
        start_frames == Frames(sub.start, fr)
        duration == RationalTime(duration_frames, fr)
        offset == RationalTime(start_frames, fr)
    IN  [name |-> "Subtitle", lane |-> "1", offset |-> offset,
         duration |-> duration, start |-> offset, role |-> "title",
         ref |-> "r2", text |-> sub.text]

\* split_into_subtitles, one iteration of the loop over the segments
SplitSegment ==
    /\ tl_pc = "split"
    /\ tl_idx <= Len(segments)
    /\ max_words_per_subtitle # 0
    /\ tl_subtitles' = tl_subtitles
                           \o SubSegments(segments[tl_idx], max_words_per_subtitle)
    /\ tl_idx' = tl_idx + 1
    /\ UNCHANGED <<segments, max_words_per_subtitle, framerate, tl_pc, fcpxml>>
    /\ UNCHANGED <<convVars, svcVars, trVars>>

\* line 27 with max_words = 0: ZeroDivisionError ends the script
SplitDivisionByZero ==
    /\ tl_pc = "split"
    /\ tl_idx <= Len(segments)
    /\ max_words_per_subtitle = 0
    /\ tl_pc' = "crashed"
    /\ UNCHANGED <<segments, max_words_per_subtitle, framerate, tl_idx,
                   tl_subtitles, fcpxml>>
    /\ UNCHANGED <<convVars, svcVars, trVars>>

\* create_fcpxml lines 50-60: the document before the first title
FcpSkeleton(fr) ==
    [version |-> "1.8",
     format |-> [id |-> "r1", name |-> "FFVideoFormat1080p30",
                 frameDuration |->
                     <<"1", "0", "0", "/">> \o IntToStr(fr * 100) \o <<"s">>],
     effect |-> [id |-> "r2", name |-> "Basic Title"],
     spine |-> <<>>]

\* line 37 return, line 39, then create_fcpxml lines 50-60: the skeleton
SplitReturn ==
    /\ tl_pc = "split"
    /\ tl_idx > Len(segments)
    /\ tl_pc' = "titles"
    /\ tl_idx' = 1
    /\ fcpxml' = FcpSkeleton(framerate)
    /\ UNCHANGED <<segments, max_words_per_subtitle, framerate, tl_subtitles>>
    /\ UNCHANGED <<convVars, svcVars, trVars>>

\* (mutant) the title is put before the titles already in the spine
FcpTitleInFront ==
    /\ tl_pc = "titles"
    /\ tl_idx <= Len(tl_subtitles)
    /\ fcpxml' = [fcpxml EXCEPT
                     !.spine = <<Title(tl_subtitles[tl_idx], framerate)>> \o @]
    /\ tl_idx' = tl_idx + 1
    /\ UNCHANGED <<segments, max_words_per_subtitle, framerate, tl_pc,
                   tl_subtitles>>
    /\ UNCHANGED <<convVars, svcVars, trVars>>

\* create_fcpxml, one iteration of the loop of lines 62-80
FcpTitle ==
    /\ tl_pc = "titles"
    /\ tl_idx <= Len(tl_subtitles)
    /\ fcpxml' = [fcpxml EXCEPT
                     !.spine = Append(@, Title(tl_subtitles[tl_idx], framerate))]
    /\ tl_idx' = tl_idx + 1
    /\ UNCHANGED <<segments, max_words_per_subtitle, framerate, tl_pc,
                   tl_subtitles>>
    /\ UNCHANGED <<convVars, svcVars, trVars>>

\* lines 82-84: the tree is written out
FcpWrite ==
    /\ tl_pc = "titles"
    /\ tl_idx > Len(tl_subtitles)
    /\ tl_pc' = "written"
    /\ UNCHANGED <<segments, max_words_per_subtitle, framerate, tl_idx,
                   tl_subtitles, fcpxml>>
    /\ UNCHANGED <<convVars, svcVars, trVars>>

(* Inputs of the timeline script *)

Txt_a_to_h ==
    <<"a", " ", "b", " ", "c", " ", "d", " ", "e", " ", "f", " ", "g", " ", "h">>

SegTexts ==
    {<<>>, <<" ", "a", " ", "b">>, <<"a", " ", "b", " ", " ", "c", " ", "d", " ", "e">>}

\* segment times, in milliseconds
SegTimes == {0, 1250}

Segments ==
    {g \in [text : SegTexts, start : SegTimes, end : SegTimes] : g.start <= g.end}

\* the scenario of the specification: eight words over [0.0, 2.0]
EightWords == << [text |-> Txt_a_to_h, start |-> 0, end |-> 2000] >>

SegmentLists ==
    {gs \in UNION {[1..n -> Segments] : n \in 0..MaxSegments} :
        \A j \in 1..(Len(gs) - 1) : gs[j].start <= gs[j + 1].start}
        \cup {EightWords}

Framerates == {24, 25, FRAMERATE}

InitTimeline ==
    /\ segments \in SegmentLists
    /\ max_words_per_subtitle \in 0..MAX_WORDS_PER_SUBTITLE
    /\ framerate \in Framerates
    /\ tl_pc = "split"
    /\ tl_idx = 1
    /\ tl_subtitles = <<>>
    /\ fcpxml = <<>>
    /\ ConverterIdle
    /\ ServiceIdle
    /\ TranscriberIdle

NextTimeline ==
    \/ SplitSegment
    \/ SplitDivisionByZero
    \/ SplitReturn
    \/ FcpTitle
    \/ FcpWrite

SpecTimeline == InitTimeline /\ [][NextTimeline]_vars

-----------------------------------------------------------------------------
(* The two renderers called on their own: create_srt_content(subtitles) and *)
(* create_fcpxml(subtitles, framerate, output_file) with any subtitle list  *)

\* longest subtitle list given to a renderer
MaxSubtitles == 2

\* create_fcpxml called directly: lines 50-60
FcpEntry ==
    /\ tl_pc = "create_fcpxml"
    /\ tl_pc' = "titles"
    /\ tl_idx' = 1
    /\ fcpxml' = FcpSkeleton(framerate)
    /\ UNCHANGED <<segments, max_words_per_subtitle, framerate, tl_subtitles>>
    /\ UNCHANGED <<convVars, svcVars, trVars>>

\* subtitles of the converter: any text and times, end before start included
SrtSubtitles ==
    [text : {<<"h", "i">>}, start_time : TimePoints, end_time : TimePoints]

SrtSubtitleLists == UNION {[1..n -> SrtSubtitles] : n \in 0..MaxSubtitles}

\* subtitles of the timeline script, times in milliseconds
FcpSubtitles ==
    [text : {<<"a", " ", "b">>},
     start : {Rat(t, 1) : t \in SegTimes}, end : {Rat(t, 1) : t \in SegTimes}]

FcpSubtitleLists == UNION {[1..n -> FcpSubtitles] : n \in 0..MaxSubtitles}

\* create_srt_content is entered with its argument
InitRenderSrt ==
    /\ words_with_timing = <<>>
    /\ max_words = MaxK
    /\ pc = "srt"
    /\ idx = 1
    /\ current_group = <<>>
    /\ subtitles \in SrtSubtitleLists
    /\ srt_content = <<>>
    /\ TimelineIdle

\* create_fcpxml is entered with its arguments
InitRenderFcp ==
    /\ segments = <<>>
    /\ max_words_per_subtitle = MAX_WORDS_PER_SUBTITLE
    /\ framerate \in Framerates
    /\ tl_pc = "create_fcpxml"
    /\ tl_idx = 0
    /\ tl_subtitles \in FcpSubtitleLists
    /\ fcpxml = <<>>
    /\ ConverterIdle

InitRender ==
    (InitRenderSrt \/ InitRenderFcp) /\ ServiceIdle /\ TranscriberIdle

NextRender ==
    \/ CreateSrtLoop
    \/ CreateSrtReturn
    \/ FcpEntry
    \/ FcpTitle
    \/ FcpWrite

SpecRender == InitRender /\ [][NextRender]_vars

-----------------------------------------------------------------------------
(* The upload service of app.py: upload_file, process_audio, get_status,    *)
(* download_file, cleanup_old_files, periodic_cleanup                       *)

\* time.sleep(1800) and the age limit of 3600 s, in units of 1800 s
SleepTicks == 1
MaxAgeTicks == 2

\* the defaults and the limits of the form fields of upload_file
DefaultMaxWords == 8
DefaultFramerate == 25
MinMaxWords == 1
MaxMaxWords == 20
MaxFramerate == 120

MaxNow == MaxAgeTicks + SleepTicks

Jobs == 1..MaxJobs

\* a float: a number or NaN; every ordering comparison with NaN is false
Num(v) == [nan |-> FALSE, v |-> v]
NaN == [nan |-> TRUE, v |-> 0]
FloatLeq(x, c) == ~x.nan /\ x.v <= c
FloatGt(x, c) == ~x.nan /\ x.v > c

\* a form field: absent, or a text that int() / float() parses
Absent == [present |-> FALSE, nan |-> FALSE, v |-> 0]
Field(v) == [present |-> TRUE, nan |-> FALSE, v |-> v]
FieldNaN == [present |-> TRUE, nan |-> TRUE, v |-> 0]

\* line 369: int(request.form.get('max_words', 8))
FormMaxWords(req) ==
    IF req.max_words.present THEN req.max_words.v ELSE DefaultMaxWords

\* line 370: float(request.form.get('framerate', 25.0))
FormFramerate(req) ==
    IF req.framerate.present
    THEN [nan |-> req.framerate.nan, v |-> req.framerate.v]
    ELSE Num(DefaultFramerate)

\* line 373: max_words < 1 or max_words > 20
MaxWordsRejected(mw) == mw < MinMaxWords \/ mw > MaxMaxWords

\* line 376: framerate <= 0 or framerate > 120
FramerateRejected(fr) == FloatLeq(fr, 0) \/ FloatGt(fr, MaxFramerate)

\* upload_file up to the start of the thread: status code and body
UploadOutcome(req) ==
    IF req.file = "absent"
    THEN [code |-> 400, body |-> "No file provided"]
    ELSE IF req.file = "unnamed"
    THEN [code |-> 400, body |-> "No file selected"]
    ELSE IF req.file = "too_big"
    THEN [code |-> 400, body |-> "File size exceeds 100MB limit"]
    ELSE IF MaxWordsRejected(FormMaxWords(req))
    THEN [code |-> 400, body |-> "max_words must be between 1 and 20"]
    ELSE IF FramerateRejected(FormFramerate(req))
    THEN [code |-> 400, body |-> "framerate must be between 0 and 120"]
    ELSE IF req.file = "not_m4a"
    THEN [code |-> 400, body |-> "Only M4A files are supported"]
    ELSE IF req.file = "unsavable"
    THEN [code |-> 500, body |-> "Failed to save file"]
    ELSE [code |-> 200, body |-> "processing"]

\* d[k] = v
DictSet(d, k, v) == [x \in DOMAIN d \cup {k} |-> IF x = k THEN v ELSE d[x]]

\* d.pop(k, None)
DictPop(d, k) == [x \in DOMAIN d \ {k} |-> d[x]]

\* completed_files keeps insertion order: a sequence of entries
HasFile(files, j) == \E p \in 1..Len(files) : files[p].job_id = j

FileSet(files, j, entry) ==
    IF HasFile(files, j)
    THEN [p \in 1..Len(files) |-> IF files[p].job_id = j THEN entry ELSE files[p]]
    ELSE Append(files, entry)

FilePop(files, j) == SelectSeq(files, LAMBDA e : e.job_id # j)

\* processing_status[job_id]["progress"] = text; FALSE stands for KeyError
HasStatus(j) == j \in DOMAIN processing_status

SetProgress(j, text) ==
    [processing_status EXCEPT ![j] = [status |-> @.status, progress |-> text]]

SetThread(j, pos) == [thread EXCEPT ![j].pc = pos]

\* the thread moves on after writing a final status at the current instant
EndThread(j, pos) == [thread EXCEPT ![j].pc = pos, ![j].ended = now]

\* upload_file (lines 351-406)
Upload(req) ==
    /\ cleanup_pc # "idle"
    /\ LET out == UploadOutcome(req)
       IN  IF out.code = 200
           THEN /\ next_job_id <= MaxJobs
                /\ temp_files' = temp_files \cup {next_job_id}
                /\ thread' = DictSet(thread, next_job_id,
                                     [pc |-> "start", words |-> "unset",
                                      exc |-> FALSE, ended |-> -1])
                /\ next_job_id' = next_job_id + 1
                /\ response' = [op |-> "upload", request |-> req,
                                code |-> 200, job_id |-> next_job_id,
                                body |-> out.body]
           ELSE /\ response' = [op |-> "upload", request |-> req,
                                code |-> out.code, job_id |-> 0,
                                body |-> out.body]
                /\ UNCHANGED <<temp_files, thread, next_job_id>>
    /\ UNCHANGED <<processing_status, completed_files, wav_files, now,
                   cleanup_pc, cleanup_time, cleanup_size, cleanup_pos,
                   to_remove, wake>>
    /\ UNCHANGED <<convVars, tlVars, trVars>>

\* a step of a background thread answers no request
NoResponse == [op |-> "none"]

\* what a step of process_audio leaves alone besides the registries
ThreadFrame ==
    /\ response' = NoResponse
    /\ UNCHANGED <<next_job_id, now, cleanup_pc, cleanup_time, cleanup_size,
                   cleanup_pos, to_remove, wake>>
    /\ UNCHANGED <<convVars, tlVars, trVars>>

\* process_audio line 272
PAStart(j) ==
    /\ j \in DOMAIN thread /\ thread[j].pc = "start"
    /\ processing_status' =
           DictSet(processing_status, j,
                   [status |-> "processing", progress |-> "Starting conversion..."])
    /\ thread' = SetThread(j, "convert")
    /\ UNCHANGED <<completed_files, temp_files, wav_files>>
    /\ ThreadFrame

\* lines 274-277: the conversion to WAV succeeds or raises
PAConvert(j) ==
    /\ j \in DOMAIN thread /\ thread[j].pc = "convert"
    /\ IF HasStatus(j)
       THEN /\ processing_status' = SetProgress(j, "Converting audio format...")
            /\ \E ok \in BOOLEAN :
                IF ok
                THEN /\ wav_files' = wav_files \cup {j}
                     /\ thread' = SetThread(j, "transcribe")
                ELSE /\ wav_files' = wav_files
                     /\ thread' = SetThread(j, "except")
       ELSE /\ thread' = SetThread(j, "except")
            /\ UNCHANGED <<processing_status, wav_files>>
    /\ UNCHANGED <<completed_files, temp_files>>
    /\ ThreadFrame

\* lines 280-281: the transcription returns words, [] or None, or raises
PATranscribe(j) ==
    /\ j \in DOMAIN thread /\ thread[j].pc = "transcribe"
    /\ IF HasStatus(j)
       THEN /\ processing_status' = SetProgress(j, "Transcribing audio...")
            /\ \E outcome \in {"words", "empty", "none", "raise"} :
                IF outcome = "raise"
                THEN thread' = [thread EXCEPT ![j].pc = "finally_wav",
                                              ![j].exc = TRUE]
                ELSE thread' = [thread EXCEPT ![j].pc = "check",
                                              ![j].words = outcome]
       ELSE /\ thread' = [thread EXCEPT ![j].pc = "finally_wav", ![j].exc = TRUE]
            /\ UNCHANGED processing_status
    /\ UNCHANGED <<completed_files, temp_files, wav_files>>
    /\ ThreadFrame

\* (mutant) nothing transcribed is raised as an exception of the conversion
PANoSpeechRaised(j) ==
    /\ j \in DOMAIN thread /\ thread[j].pc = "check"
    /\ thread[j].words \in {"empty", "none"}
    /\ thread' = [thread EXCEPT ![j].pc = "finally_wav", ![j].exc = TRUE]
    /\ UNCHANGED <<processing_status, completed_files, temp_files, wav_files>>
    /\ ThreadFrame

\* lines 283-285: nothing transcribed
PANoSpeech(j) ==
    /\ j \in DOMAIN thread /\ thread[j].pc = "check"
    /\ thread[j].words \in {"empty", "none"}
    /\ processing_status' =
           DictSet(processing_status, j,
                   [status |-> "error",
                    message |-> "No speech detected in audio file"])
    /\ thread' = EndThread(j, "finally_wav")
    /\ UNCHANGED <<completed_files, temp_files, wav_files>>
    /\ ThreadFrame

\* lines 287-289: the subtitles are grouped and rendered, or a call raises
PAGenerate(j) ==
    /\ j \in DOMAIN thread /\ thread[j].pc = "check"
    /\ thread[j].words = "words"
    /\ IF HasStatus(j)
       THEN /\ processing_status' = SetProgress(j, "Generating subtitles...")
            /\ \E ok \in BOOLEAN :
                IF ok
                THEN thread' = SetThread(j, "store")
                ELSE thread' = [thread EXCEPT ![j].pc = "finally_wav",
                                              ![j].exc = TRUE]
       ELSE /\ thread' = [thread EXCEPT ![j].pc = "finally_wav", ![j].exc = TRUE]
            /\ UNCHANGED processing_status
    /\ UNCHANGED <<completed_files, temp_files, wav_files>>
    /\ ThreadFrame

\* lines 292-298
PAStore(j) ==
    /\ j \in DOMAIN thread /\ thread[j].pc = "store"
    /\ completed_files' =
           FileSet(completed_files, j, [job_id |-> j, timestamp |-> now])
    /\ thread' = SetThread(j, "complete")
    /\ UNCHANGED <<processing_status, temp_files, wav_files>>
    /\ ThreadFrame

\* lines 300-304
PAComplete(j) ==
    /\ j \in DOMAIN thread /\ thread[j].pc = "complete"
    /\ processing_status' =
           DictSet(processing_status, j, [status |-> "completed"])
    /\ thread' = EndThread(j, "finally_wav")
    /\ UNCHANGED <<completed_files, temp_files, wav_files>>
    /\ ThreadFrame

\* lines 306-311: the inner finally
PAFinallyWav(j) ==
    /\ j \in DOMAIN thread /\ thread[j].pc = "finally_wav"
    /\ wav_files' = wav_files \ {j}
    /\ thread' = SetThread(j, IF thread[j].exc THEN "except" ELSE "finally_file")
    /\ UNCHANGED <<processing_status, completed_files, temp_files>>
    /\ ThreadFrame

\* (mutant) the exception is swallowed without a status
PAExceptSilent(j) ==
    /\ j \in DOMAIN thread /\ thread[j].pc = "except"
    /\ thread' = SetThread(j, "finally_file")
    /\ UNCHANGED <<processing_status, completed_files, temp_files, wav_files>>
    /\ ThreadFrame

\* lines 313-314
PAExcept(j) ==
    /\ j \in DOMAIN thread /\ thread[j].pc = "except"
    /\ processing_status' =
           DictSet(processing_status, j,
                   [status |-> "error", message |-> "str(e)"])
    /\ thread' = EndThread(j, "finally_file")
    /\ UNCHANGED <<completed_files, temp_files, wav_files>>
    /\ ThreadFrame

\* lines 316-321: the outer finally
PAFinallyFile(j) ==
    /\ j \in DOMAIN thread /\ thread[j].pc = "finally_file"
    /\ temp_files' = temp_files \ {j}
    /\ thread' = SetThread(j, "done")
    /\ UNCHANGED <<processing_status, completed_files, wav_files>>
    /\ ThreadFrame

\* what a request leaves alone
RequestFrame ==
    /\ UNCHANGED <<thread, temp_files, wav_files, next_job_id>>
    /\ UNCHANGED <<convVars, tlVars, trVars>>

\* what a step of the cleanup thread or of the clock leaves alone
CleanupFrame ==
    /\ response' = NoResponse
    /\ UNCHANGED <<thread, temp_files, wav_files, next_job_id>>
    /\ UNCHANGED <<convVars, tlVars, trVars>>

\* get_status (lines 408-413)
GetStatus(j) ==
    /\ cleanup_pc # "idle"
    /\ response' =
           IF HasStatus(j)
           THEN [op |-> "status", job_id |-> j, code |-> 200,
                 body |-> processing_status[j].status]
           ELSE [op |-> "status", job_id |-> j, code |-> 404,
                 body |-> "Job not found"]
    /\ UNCHANGED <<processing_status, completed_files, now, cleanup_pc,
                   cleanup_time, cleanup_size, cleanup_pos, to_remove, wake>>
    /\ RequestFrame

\* download_file (lines 415-431)
Download(j) ==
    /\ cleanup_pc # "idle"
    /\ response' =
           IF HasFile(completed_files, j)
           THEN [op |-> "download", job_id |-> j, code |-> 200,
                 body |-> "srt_content"]
           ELSE [op |-> "download", job_id |-> j, code |-> 404,
                 body |-> "File not ready or job not found"]
    /\ UNCHANGED <<processing_status, completed_files, now, cleanup_pc,
                   cleanup_time, cleanup_size, cleanup_pos, to_remove, wake>>
    /\ RequestFrame

\* the clock advances
Tick ==
    /\ cleanup_pc # "idle"
    /\ now < MaxNow
    /\ now' = now + 1
    /\ UNCHANGED <<processing_status, completed_files, cleanup_pc,
                   cleanup_time, cleanup_size, cleanup_pos, to_remove, wake>>
    /\ CleanupFrame

\* periodic_cleanup line 450 returns; cleanup_old_files lines 436-439: the
\* iterator over completed_files is made
CleanupBegin ==
    /\ cleanup_pc = "sleep"
    /\ now >= wake
    /\ cleanup_pc' = "scan"
    /\ cleanup_time' = now
    /\ to_remove' = <<>>
    /\ cleanup_size' = Len(completed_files)
    /\ cleanup_pos' = 1
    /\ UNCHANGED <<processing_status, completed_files, now, wake>>
    /\ CleanupFrame

\* lines 439-441: one step of the for loop; a dict whose size changed since
\* the iterator was made raises RuntimeError, which ends the thread
CleanupScan ==
    /\ cleanup_pc = "scan"
    /\ IF Len(completed_files) # cleanup_size
       THEN /\ cleanup_pc' = "dead"
            /\ UNCHANGED <<to_remove, cleanup_pos>>
       ELSE IF cleanup_pos > Len(completed_files)
       THEN /\ cleanup_pc' = "remove"
            /\ UNCHANGED <<to_remove, cleanup_pos>>
       ELSE /\ to_remove' =
                   (IF cleanup_time - completed_files[cleanup_pos].timestamp
                           > MaxAgeTicks
                    THEN Append(to_remove, completed_files[cleanup_pos].job_id)
                    ELSE to_remove)
            /\ cleanup_pos' = cleanup_pos + 1
            /\ cleanup_pc' = "scan"
    /\ UNCHANGED <<processing_status, completed_files, now, cleanup_time,
                   cleanup_size, wake>>
    /\ CleanupFrame

\* line 444: completed_files.pop(job_id, None)
CleanupPopFile ==
    /\ cleanup_pc = "remove"
    /\ to_remove # <<>>
    /\ completed_files' = FilePop(completed_files, Head(to_remove))
    /\ cleanup_pc' = "remove_status"
    /\ UNCHANGED <<processing_status, now, cleanup_time, cleanup_size,
                   cleanup_pos, to_remove, wake>>
    /\ CleanupFrame

\* line 445: processing_status.pop(job_id, None)
CleanupPopStatus ==
    /\ cleanup_pc = "remove_status"
    /\ processing_status' = DictPop(processing_status, Head(to_remove))
    /\ to_remove' = Tail(to_remove)
    /\ cleanup_pc' = "remove"
    /\ UNCHANGED <<completed_files, now, cleanup_time, cleanup_size,
                   cleanup_pos, wake>>
    /\ CleanupFrame

\* cleanup_old_files returns; periodic_cleanup sleeps again (lines 449-450)
CleanupSleep ==
    /\ cleanup_pc = "remove"
    /\ to_remove = <<>>
    /\ cleanup_pc' = "sleep"
    /\ wake' = now + SleepTicks
    /\ cleanup_time' = 0
    /\ cleanup_size' = 0
    /\ cleanup_pos' = 0
    /\ UNCHANGED <<processing_status, completed_files, now, to_remove>>
    /\ CleanupFrame

(* Requests of the service *)

FileKinds == {"m4a", "absent", "unnamed", "too_big", "not_m4a", "unsavable"}

MaxWordsFields ==
    {Absent, Field(MinMaxWords - 1), Field(MinMaxWords), Field(MaxMaxWords),
     Field(MaxMaxWords + 1)}

FramerateFields ==
    {Absent, Field(0), Field(MaxFramerate), Field(MaxFramerate + 1), FieldNaN}

\* an m4a upload with any fields, or a bad file with the default fields
UploadRequests ==
    {r \in [file : FileKinds, max_words : MaxWordsFields,
            framerate : FramerateFields] :
        r.file = "m4a" \/ (r.max_words = Absent /\ r.framerate = Absent)}

InitService ==
    /\ processing_status = <<>>
    /\ completed_files = <<>>
    /\ thread = <<>>
    /\ temp_files = {}
    /\ wav_files = {}
    /\ next_job_id = 1
    /\ now = 0
    /\ response = NoResponse
    /\ cleanup_pc = "sleep"
    /\ cleanup_time = 0
    /\ cleanup_size = 0
    /\ cleanup_pos = 0
    /\ to_remove = <<>>
    /\ wake = SleepTicks
    /\ ConverterIdle
    /\ TimelineIdle
    /\ TranscriberIdle

\* a step of some process_audio thread
ThreadStep ==
    \/ \E j \in Jobs : PAStart(j)
    \/ \E j \in Jobs : PAConvert(j)
    \/ \E j \in Jobs : PATranscribe(j)
    \/ \E j \in Jobs : PANoSpeech(j)
    \/ \E j \in Jobs : PAGenerate(j)
    \/ \E j \in Jobs : PAStore(j)
    \/ \E j \in Jobs : PAComplete(j)
    \/ \E j \in Jobs : PAFinallyWav(j)
    \/ \E j \in Jobs : PAExcept(j)
    \/ \E j \in Jobs : PAFinallyFile(j)

\* a step of the process_audio thread of job j
ThreadStepOf(j) ==
    \/ PAStart(j)
    \/ PAConvert(j)
    \/ PATranscribe(j)
    \/ PANoSpeech(j)
    \/ PAGenerate(j)
    \/ PAStore(j)
    \/ PAComplete(j)
    \/ PAFinallyWav(j)
    \/ PAExcept(j)
    \/ PAFinallyFile(j)

\* uploads of every kind against the running threads
NextUpload ==
    \/ \E req \in UploadRequests : Upload(req)
    \/ ThreadStep

SpecUpload == InitService /\ [][NextUpload]_vars

\* an upload with the default fields
DefaultRequest == [file |-> "m4a", max_words |-> Absent, framerate |-> Absent]

\* the whole service: requests, threads, the clock and the cleanup thread
NextService ==
    \/ Upload(DefaultRequest)
    \/ ThreadStep
    \/ \E j \in Jobs : GetStatus(j)
    \/ \E j \in Jobs : Download(j)
    \/ Tick
    \/ CleanupBegin
    \/ CleanupScan
    \/ CleanupPopFile
    \/ CleanupPopStatus
    \/ CleanupSleep

SpecService == InitService /\ [][NextService]_vars

\* the workers against the clock and the cleanup thread, without the two
\* reading requests
NextWorkers ==
    \/ Upload(DefaultRequest)
    \/ ThreadStep
    \/ Tick
    \/ CleanupBegin
    \/ CleanupScan
    \/ CleanupPopFile
    \/ CleanupPopStatus
    \/ CleanupSleep

\* the workers with their scheduling: a started thread that can take a step
\* takes one; every call of process_audio returns or raises (the whisper
\* subprocess carries a timeout)
SpecWorkersFair ==
    /\ InitService
    /\ [][NextWorkers]_vars
    /\ \A j \in Jobs : WF_vars(ThreadStepOf(j))

-----------------------------------------------------------------------------
(* The transcription step: app.py lines 65-200, app_fallback.py 107-271 *)

\* bound on the number of chunks of the freely chosen recordings
MaxChunks == 2

Programs == {"app.py", "app_fallback.py"}

\* the literal of `if i > N: break` (app.py line 157, app_fallback.py 194)
ChunkLimit(prog) == IF prog = "app.py" THEN 20 ELSE 10

\* a timed unit of the transcription; its times are rationals in milliseconds
Unit(word, start, end) == [word |-> word, start |-> start, end |-> end]

\* app.py lines 171-180: word j (0-based) of a chunk that begins at `from`
\* and lasts `span` runs from from + j * (span / n) to from + (j+1) * (span / n)
SpreadWords(words, from, span) ==
    [j \in 1..Len(words) |->
        Unit(words[j],
             Rat(from * Len(words) + (j - 1) * span, Len(words)),
             Rat(from * Len(words) + j * span, Len(words)))]

\* app.py lines 163-188: the words recognised in one chunk; an unknown value,
\* a request error and any other exception leave the list as it is
RecognisedWords(chunk, from) ==
    IF chunk.kind = "text" /\ Strip(chunk.text) # <<>>
    THEN SpreadWords(Split(chunk.text), from, chunk.len)
    ELSE <<>>

\* app_fallback.py lines 246-256: the words of the segments whisper reports
\* for one chunk, placed at offset_time + the segment's own times
RECURSIVE SegmentWords(_, _)
SegmentWords(segs, offset_time) ==
    IF segs = <<>> THEN <<>>
    ELSE LET seg == segs[1]
             segment_words == Split(Strip(seg.text))
             n == Len(segment_words)
         IN  [i \in 1..n |->
                Unit(segment_words[i],
                     Rat((offset_time + seg.start) * n
                            + (i - 1) * (seg.end - seg.start), n),
                     Rat((offset_time + seg.start) * n
                            + i * (seg.end - seg.start), n))]
             \o SegmentWords(Tail(segs), offset_time)

\* app_fallback.py lines 228-271: transcribe_chunk_with_whisper; a failing
\* run and a missing JSON file give []
ChunkWithWhisper(chunk, offset_time) ==
    IF chunk.kind = "segments" THEN SegmentWords(chunk.segments, offset_time)
    ELSE <<>>

\* app_fallback.py lines 207-212: one placeholder word over the whole chunk
PlaceholderWord(chunk, i, from) ==
    << Unit(AudioChunkWord(i), Rat(from, 1), Rat(from + chunk.len, 1)) >>

\* the words one pass of the loop body appends (app.py lines 163-188,
\* app_fallback.py lines 200-214)
ChunkWords(prog, available, chunk, i, from) ==
    IF prog = "app.py" THEN RecognisedWords(chunk, from)
    ELSE IF available THEN ChunkWithWhisper(chunk, from)
    ELSE PlaceholderWord(chunk, i, from)

\* the frame of a step of the transcription
TranscriberInputs ==
    UNCHANGED <<program, whisper_available, whisper_run, audio_loads, chunks>>

TranscriberFrame == UNCHANGED <<convVars, tlVars, svcVars>>

Returned(kind, words) == [kind |-> kind, words |-> words]

\* app.py lines 65-129: transcribe_with_whisper.  The except clause names
\* three exceptions; when the run succeeds and the JSON file is missing the
\* if of line 91 has no else and the function returns None; any other
\* exception (json.load, a missing key) leaves the function
TranscribeWithWhisper ==
    /\ program = "app.py" /\ tr_pc = "call"
    /\ IF whisper_run.outcome \in
              {"CalledProcessError", "FileNotFoundError", "TimeoutExpired"}
       THEN /\ tr_pc' = "fallback"
            /\ fallback_called' = TRUE
            /\ UNCHANGED returned
       ELSE /\ tr_pc' = "returned"
            /\ returned' =
                 CASE whisper_run.outcome = "json" ->
                          Returned("list", whisper_run.words)
                   [] whisper_run.outcome = "no_json" -> Returned("None", <<>>)
                   [] OTHER -> Returned("raise", <<>>)
            /\ UNCHANGED fallback_called
    /\ UNCHANGED <<chunk_i, current_time, fallback_words, job_status>>
    /\ TranscriberInputs
    /\ TranscriberFrame

\* app_fallback.py lines 107-119 with 121-166: transcribe_audio returns the
\* words of whisper when the flag is set and the call returns, and calls the
\* fallback otherwise (a missing JSON file is raised at line 162)
TranscribeAudio ==
    /\ program = "app_fallback.py" /\ tr_pc = "call"
    /\ IF whisper_available /\ whisper_run.outcome = "json"
       THEN /\ tr_pc' = "returned"
            /\ returned' = Returned("list", whisper_run.words)
            /\ UNCHANGED fallback_called
       ELSE /\ tr_pc' = "fallback"
            /\ fallback_called' = TRUE
            /\ UNCHANGED returned
    /\ UNCHANGED <<chunk_i, current_time, fallback_words, job_status>>
    /\ TranscriberInputs
    /\ TranscriberFrame

\* app.py lines 135-151 and 198-200: the audio is loaded and split; an
\* exception of the load returns []
FallbackLoad ==
    /\ tr_pc = "fallback"
    /\ IF audio_loads
       THEN /\ tr_pc' = "chunks"
            /\ UNCHANGED returned
       ELSE /\ tr_pc' = "returned"
            /\ returned' = Returned("list", <<>>)
    /\ fallback_words' = <<>>
    /\ current_time' = 0
    /\ chunk_i' = 0
    /\ UNCHANGED <<fallback_called, job_status>>
    /\ TranscriberInputs
    /\ TranscriberFrame

\* app.py lines 153-194: one pass of the loop that does not break; the
\* finally clause advances current_time whatever the try block did
FallbackChunk ==
    /\ tr_pc = "chunks"
    /\ chunk_i < Len(chunks)
    /\ ~(chunk_i > ChunkLimit(program))
    /\ LET chunk == chunks[chunk_i + 1]
       IN  /\ fallback_words' =
                  fallback_words \o ChunkWords(program, whisper_available,
                                               chunk, chunk_i, current_time)
           /\ current_time' = current_time + chunk.len
    /\ chunk_i' = chunk_i + 1
    /\ UNCHANGED <<tr_pc, fallback_called, returned, job_status>>
    /\ TranscriberInputs
    /\ TranscriberFrame

\* app.py lines 157-158 and 196: the loop ends, by its break or because the
\* chunks are used up, and the list is returned
FallbackReturn ==
    /\ tr_pc = "chunks"
    /\ (chunk_i >= Len(chunks) \/ chunk_i > ChunkLimit(program))
    /\ tr_pc' = "returned"
    /\ returned' = Returned("list", fallback_words)
    /\ UNCHANGED <<chunk_i, current_time, fallback_words, fallback_called,
                   job_status>>
    /\ TranscriberInputs
    /\ TranscriberFrame

\* process_audio, app.py lines 281-314 (app_fallback.py 352-385): what the
\* job's status becomes for the value the transcription step gave; the units
\* of a non-empty list are well formed and max_words was checked by the
\* upload handler, so lines 287-304 run through
PAResult ==
    /\ tr_pc = "returned"
    /\ tr_pc' = "done"
    /\ job_status' =
         IF returned.kind = "raise"
         THEN [status |-> "error", message |-> "str(e)"]
         ELSE IF returned.words = <<>>
         THEN [status |-> "error",
               message |-> "No speech detected in audio file"]
         ELSE [status |-> "completed"]
    /\ UNCHANGED <<chunk_i, current_time, fallback_words, fallback_called,
                   returned>>
    /\ TranscriberInputs
    /\ TranscriberFrame

(* Inputs of the transcription step *)

\* len(chunk), in milliseconds
ChunkLens == {1000, 1500}

Txt_hi == <<"h", "i">>
Txt_hi_yo == <<"h", "i", " ", "y", "o">>

\* what recognize_google gives for a chunk
ChunkTexts == {Txt_hi, Txt_hi_yo, <<" ">>}

Chunk(len, kind, text, segs) ==
    [len |-> len, kind |-> kind, text |-> text, segments |-> segs]

Segment(text, start, end) == [text |-> text, start |-> start, end |-> end]

\* the segments whisper reports for a chunk, in milliseconds from the start
\* of the chunk.  The timestamps are whisper's own estimate over its
\* 30-second window: nothing in this code keeps them inside the chunk
ChunkSegmentLists ==
    { <<>>,
      << Segment(Txt_hi_yo, 0, 1000) >>,
      << Segment(Txt_hi, 200, 800) >>,
      << Segment(Txt_hi, 1600, 2000) >> }

\* the chunks a recording can consist of, for each way of processing them
ChunksOf(prog, available) ==
    IF prog = "app.py"
    THEN {Chunk(l, "text", t, <<>>) : l \in ChunkLens, t \in ChunkTexts}
         \cup {Chunk(l, k, <<>>, <<>>) :
                 l \in ChunkLens,
                 k \in {"UnknownValueError", "RequestError", "Exception"}}
    ELSE IF available
    THEN {Chunk(l, "segments", <<>>, s) : l \in ChunkLens, s \in ChunkSegmentLists}
         \cup {Chunk(l, "failed", <<>>, <<>>) : l \in ChunkLens}
    ELSE {Chunk(l, "audio", <<>>, <<>>) : l \in ChunkLens}

\* a long recording: n chunks of one second with one word each
SpokenChunk(prog, available) ==
    IF prog = "app.py" THEN Chunk(1000, "text", Txt_hi, <<>>)
    ELSE IF available
    THEN Chunk(1000, "segments", <<>>, << Segment(Txt_hi, 0, 1000) >>)
    ELSE Chunk(1000, "audio", <<>>, <<>>)

LongRecordings(prog, available) ==
    {[c \in 1..n |-> SpokenChunk(prog, available)] :
        n \in ChunkLimit(prog)..(ChunkLimit(prog) + 2)}

\* split_on_silence gives at least one chunk after lines 147-148
ChunkLists(prog, available) ==
    UNION {[1..n -> ChunksOf(prog, available)] : n \in 1..MaxChunks}
        \cup LongRecordings(prog, available)

\* the words of a whisper JSON file, as lines 96-115 build them
JsonWordLists ==
    { <<>>, << Unit(Txt_hi, Rat(1500, 1), Rat(2250, 1)) >> }

WhisperRun(outcome, words) == [outcome |-> outcome, words |-> words]

\* what the subprocess can do: subprocess.run of app.py carries a timeout,
\* that of app_fallback.py does not; without the flag whisper is not run
WhisperRuns(prog, available) ==
    IF ~available THEN {WhisperRun("not_run", <<>>)}
    ELSE {WhisperRun(o, <<>>) :
            o \in {"CalledProcessError", "FileNotFoundError", "no_json",
                   "bad_json"}
                  \cup (IF prog = "app.py" THEN {"TimeoutExpired"} ELSE {})}
         \cup {WhisperRun("json", w) : w \in JsonWordLists}

InitTranscribe ==
    /\ program \in Programs
    /\ whisper_available \in (IF program = "app.py" THEN {TRUE} ELSE BOOLEAN)
    /\ whisper_run \in WhisperRuns(program, whisper_available)
    /\ audio_loads \in BOOLEAN
    /\ chunks \in (IF audio_loads
                   THEN ChunkLists(program, whisper_available) ELSE {<<>>})
    /\ tr_pc = "call"
    /\ chunk_i = 0
    /\ current_time = 0
    /\ fallback_words = <<>>
    /\ fallback_called = FALSE
    /\ returned = Returned("pending", <<>>)
    /\ job_status = [status |-> "processing"]
    /\ ConverterIdle
    /\ TimelineIdle
    /\ ServiceIdle

NextTranscribe ==
    \/ TranscribeWithWhisper
    \/ TranscribeAudio
    \/ FallbackLoad
    \/ FallbackChunk
    \/ FallbackReturn
    \/ PAResult

SpecTranscribe == InitTranscribe /\ [][NextTranscribe]_vars

-----------------------------------------------------------------------------
(* Properties of the grouper *)

\* group_words_into_subtitles has returned
Grouped == pc \in {"srt", "done"}

RECURSIVE Flatten(_)
Flatten(seqs) == IF seqs = <<>> THEN <<>> ELSE seqs[1] \o Flatten(Tail(seqs))

\* the whitespace-separated words of the subtitles, in output order
SubtitleWords == Flatten([j \in 1..Len(subtitles) |-> Split(subtitles[j].text)])

\* the texts of the units, in input order
UnitTexts == [j \in 1..Len(words_with_timing) |-> words_with_timing[j].word]

\* every unit carries one whitespace-free word
SingleWordUnits ==
    \A j \in 1..Len(words_with_timing) :
        Split(words_with_timing[j].word) = <<words_with_timing[j].word>>

\* C1 as stated: for every non-empty word list and max_words >= 1 the words
\* of the subtitles, concatenated in output order, are the input word
\* sequence, so their number is len(units).
C1_WordsEqualUnits ==
    (Grouped /\ max_words >= 1 /\ words_with_timing # <<>>)
        => /\ SubtitleWords = UnitTexts
           /\ Len(SubtitleWords) = Len(words_with_timing)

\* C1 amended: the words of the subtitles are the words of the units' texts,
\* in order, nothing dropped, duplicated or reordered; they are the input
\* sequence itself, len(units) of them, when every unit carries one
\* whitespace-free word.
C1_WordsPreserved ==
    (Grouped /\ max_words >= 1 /\ words_with_timing # <<>>)
        => /\ SubtitleWords = Flatten([j \in 1..Len(UnitTexts) |-> Split(UnitTexts[j])])
           /\ SingleWordUnits
                => /\ SubtitleWords = UnitTexts
                   /\ Len(SubtitleWords) = Len(words_with_timing)

C1_Witness ==
    /\ Grouped
    /\ max_words = 2
    /\ Len(words_with_timing) = 3
    /\ SingleWordUnits
    /\ Len(subtitles) = 2
    /\ Len(SubtitleWords) = 3

\* the group being closed by the step now taken, <<>> when none is
ClosedGroup ==
    IF pc = "group" /\ Len(subtitles') = Len(subtitles) + 1
    THEN IF pc' = "group"
         THEN Append(current_group, words_with_timing[idx])
         ELSE current_group
    ELSE <<>>

\* C2: with k = max_words >= 1 every group closed inside the scan holds
\* exactly k units, the group closed after the scan holds between 1 and k,
\* and the grouper returns ceil(len(units) / k) subtitles.
C2_GroupSizes ==
    /\ [][(max_words >= 1 /\ ClosedGroup # <<>>)
            => /\ pc' = "group" => Len(ClosedGroup) = max_words
               /\ pc' # "group" => Len(ClosedGroup) \in 1..max_words]_vars
    /\ []((Grouped /\ max_words >= 1)
            => Len(subtitles) = CeilDiv(Len(words_with_timing), max_words))

C2_Witness ==
    /\ Grouped
    /\ max_words = 2
    /\ Len(words_with_timing) = 3
    /\ current_group # <<>>
    /\ Len(subtitles) = 2

Min(a, b) == IF a <= b THEN a ELSE b

\* the slice of the input that group j of size-k grouping covers
GroupSlice(j) ==
    SubSeq(words_with_timing, (j - 1) * max_words + 1,
           Min(j * max_words, Len(words_with_timing)))

Txt_hello_world == <<"h", "e", "l", "l", "o", " ", "w", "o", "r", "l", "d">>
Txt_foo == <<"f", "o", "o">>

\* C3: subtitle j spans the first unit's start to the last unit's end of the
\* j-th contiguous slice of k units, and its text is that slice's texts
\* joined by single spaces; hello/world/foo with k = 2 gives
\* {"hello world", 0.0, 1.0} and {"foo", 1.0, 1.2}.
C3_SubtitleOfSlice ==
    (Grouped /\ max_words >= 1)
        => /\ \A j \in 1..Len(subtitles) :
                /\ GroupSlice(j) # <<>>
                /\ subtitles[j].start_time = GroupSlice(j)[1].start
                /\ subtitles[j].end_time = GroupSlice(j)[Len(GroupSlice(j))].end
                /\ subtitles[j].text =
                       Join([m \in 1..Len(GroupSlice(j)) |-> GroupSlice(j)[m].word],
                            <<" ">>)
           /\ Len(subtitles) * max_words >= Len(words_with_timing)
           /\ (words_with_timing = HelloWorldFoo /\ max_words = 2)
                => subtitles =
                    << [text |-> Txt_hello_world,
                        start_time |-> Time(0, 0), end_time |-> Time(1, 0)],
                       [text |-> Txt_foo,
                        start_time |-> Time(1, 0), end_time |-> Time(1, 2000000)] >>

C3_Witness ==
    /\ Grouped
    /\ words_with_timing = HelloWorldFoo
    /\ max_words = 2
    /\ Len(subtitles) = 2

\* C7 as stated: with max_words < 1 the grouper fails and returns no
\* grouping (the code has no failing exit: returning is all it can do).
C7_NonPositiveRejected ==
    max_words < 1 => (~Grouped /\ subtitles = <<>>)


-----------------------------------------------------------------------------
(* Reading an SRT document back *)

\* str.split("\n"): the pieces between newlines, empty ones kept
RECURSIVE SplitLinesFrom(_, _, _, _)
SplitLinesFrom(str, from, at, acc) ==
    IF at > Len(str) THEN Append(acc, SubSeq(str, from, Len(str)))
    ELSE IF str[at] = "\n"
         THEN SplitLinesFrom(str, at + 1, at + 1,
                             Append(acc, SubSeq(str, from, at - 1)))
         ELSE SplitLinesFrom(str, from, at + 1, acc)

SplitLines(str) == SplitLinesFrom(str, 1, 1, <<>>)

IsDigit(c) == \E d \in 1..10 : Digits[d] = c

DigitValue(c) == (CHOOSE d \in 1..10 : Digits[d] = c) - 1

RECURSIVE StrToInt(_)
StrToInt(str) ==
    IF str = <<>> THEN 0
    ELSE 10 * StrToInt(SubSeq(str, 1, Len(str) - 1)) + DigitValue(str[Len(str)])

IsNumeral(str) ==
    /\ str # <<>>
    /\ \A j \in 1..Len(str) : IsDigit(str[j])
    /\ Len(str) > 1 => str[1] # "0"

\* HH:MM:SS,mmm
IsTimecode(tc) ==
    /\ Len(tc) = 12
    /\ tc[3] = ":" /\ tc[6] = ":" /\ tc[9] = ","
    /\ \A j \in {1, 2, 4, 5, 7, 8, 10, 11, 12} : IsDigit(tc[j])
    /\ StrToInt(SubSeq(tc, 4, 5)) < 60
    /\ StrToInt(SubSeq(tc, 7, 8)) < 60

\* the time a timecode denotes
TimecodeTime(tc) ==
    Time((StrToInt(SubSeq(tc, 1, 2)) * 60 + StrToInt(SubSeq(tc, 4, 5))) * 60
             + StrToInt(SubSeq(tc, 7, 8)),
         StrToInt(SubSeq(tc, 10, 12)) * (FracPerSecond \div 1000))

\* |a - b| < ticks (units of 1/FracPerSecond s), for ticks <= FracPerSecond
CloserThan(a, b, ticks) ==
    /\ a.s - b.s \in {-1, 0, 1}
    /\ (a.s - b.s) * FracPerSecond + (a.f - b.f) < ticks
    /\ (b.s - a.s) * FracPerSecond + (b.f - a.f) < ticks

\* the lines have the shape of n four-line blocks
SrtWellFormed(lines, n) ==
    /\ Len(lines) = 4 * n + 1
    /\ lines[4 * n + 1] = <<>>
    /\ \A i \in 1..n :
        /\ IsNumeral(lines[4 * i - 3])
        /\ Len(lines[4 * i - 2]) = 29
        /\ IsTimecode(SubSeq(lines[4 * i - 2], 1, 12))
        /\ SubSeq(lines[4 * i - 2], 13, 17) = <<" ", "-", "-", ">", " ">>
        /\ IsTimecode(SubSeq(lines[4 * i - 2], 18, 29))
        /\ lines[4 * i] = <<>>

BlockIndex(lines, i) == StrToInt(lines[4 * i - 3])
BlockStart(lines, i) == TimecodeTime(SubSeq(lines[4 * i - 2], 1, 12))
BlockEnd(lines, i) == TimecodeTime(SubSeq(lines[4 * i - 2], 18, 29))
BlockText(lines, i) == lines[4 * i - 1]

Srt_hi ==
    <<"1", "\n",
      "0", "0", ":", "0", "0", ":", "0", "1", ",", "5", "0", "0",
      " ", "-", "-", ">", " ",
      "0", "0", ":", "0", "0", ":", "0", "2", ",", "2", "5", "0", "\n",
      "h", "i", "\n", "\n">>

\* one millisecond and half a millisecond, in units of 1/FracPerSecond s
MilliTicks == FracPerSecond \div 1000
HalfMilliTicks == FracPerSecond \div 2000

\* C4: create_srt_content returns, for the subtitles in input order, the
\* blocks numbered 1..N without gaps, each being the index line, the line
\* "<start> --> <end>" of HH:MM:SS,mmm timecodes denoting the subtitle's
\* times to the millisecond, the text line and a blank line; {"hi", 1.5,
\* 2.25} renders as "1\n00:00:01,500 --> 00:00:02,250\nhi\n\n".
C4_SrtBlocks ==
    pc = "done"
        => LET lines == SplitLines(srt_content)
           IN  /\ SrtWellFormed(lines, Len(subtitles))
               /\ \A i \in 1..Len(subtitles) :
                    /\ BlockIndex(lines, i) = i
                    /\ CloserThan(BlockStart(lines, i), subtitles[i].start_time,
                                  MilliTicks)
                    /\ CloserThan(BlockEnd(lines, i), subtitles[i].end_time,
                                  MilliTicks)
                    /\ BlockText(lines, i) = subtitles[i].text
               /\ subtitles = << [text |-> Txt_hi,
                                  start_time |-> Time(1, 5000000),
                                  end_time |-> Time(2, 2500000)] >>
                    => srt_content = Srt_hi

C4_Witness ==
    /\ pc = "done"
    /\ Len(subtitles) = 2
    /\ subtitles[2].end_time = Time(3725, 9999996)
    /\ Len(srt_content) > 2 * Len(Srt_hi)

\* round(seconds * 1000) with the carry into the seconds
RoundedToMillis(t) ==
    LET ms == RoundHalfEven(t.f, MilliTicks)
    IN  IF ms = 1000 THEN Time(t.s + 1, 0) ELSE Time(t.s, ms * MilliTicks)

\* C5 as stated: the millisecond field is round((seconds - floor(seconds))
\* * 1000), carried into the seconds when it reaches 1000: every timecode
\* denotes its time rounded to the nearest millisecond.
C5_MillisRounded ==
    (pc = "done" /\ max_words >= 1)
        => LET lines == SplitLines(srt_content)
           IN  /\ SrtWellFormed(lines, Len(subtitles))
               /\ \A i \in 1..Len(subtitles) :
                    /\ BlockStart(lines, i) = RoundedToMillis(subtitles[i].start_time)
                    /\ BlockEnd(lines, i) = RoundedToMillis(subtitles[i].end_time)

\* C6 as stated: grouped with k = 1 and rendered, the document parses back
\* to the original word texts and to times less than half a millisecond
\* from the original start and end times.
C6_RoundTrip ==
    (pc = "done" /\ max_words = 1)
        => LET lines == SplitLines(srt_content)
           IN  /\ SrtWellFormed(lines, Len(words_with_timing))
               /\ \A i \in 1..Len(words_with_timing) :
                    /\ BlockText(lines, i) = words_with_timing[i].word
                    /\ CloserThan(BlockStart(lines, i), words_with_timing[i].start,
                                  HalfMilliTicks)
                    /\ CloserThan(BlockEnd(lines, i), words_with_timing[i].end,
                                  HalfMilliTicks)


-----------------------------------------------------------------------------
(* Properties of the timeline script *)

\* split_into_subtitles has returned
SplitDone == tl_pc \in {"titles", "written"}

RatEq(r1, r2) == r1.n * r2.d = r2.n * r1.d

\* the number of sub-segments the segments before segment g produce
RECURSIVE SubtitlesBefore(_)
SubtitlesBefore(g) ==
    IF g <= 1 THEN 0
    ELSE SubtitlesBefore(g - 1)
             + CeilDiv(Len(Split(segments[g - 1].text)), max_words_per_subtitle)

\* sub-segment i (0-based) of segment g in the returned list
SubOf(g, i) == tl_subtitles[SubtitlesBefore(g) + i + 1]

\* C9: a segment of n >= 1 words is split into k = ceil(n / max_words)
\* sub-segments; the i-th covers [start + i*(end-start)/k, start +
\* (i+1)*(end-start)/k] and carries words[i*max_words : (i+1)*max_words], so
\* the sub-segments have equal durations, abut, and carry exactly the
\* segment's words; 8 words over [0.0, 2.0] with max 4 give two 1.0 s
\* sub-segments of 4 words each.
C9_SegmentSplit ==
    (SplitDone /\ max_words_per_subtitle >= 1)
        => /\ Len(tl_subtitles) = SubtitlesBefore(Len(segments) + 1)
           /\ \A g \in 1..Len(segments) :
                LET words == Split(segments[g].text)
                    n == Len(words)
                    k == CeilDiv(n, max_words_per_subtitle)
                    span == segments[g].end - segments[g].start
                IN  n >= 1 =>
                    /\ \A i \in 0..(k - 1) :
                        /\ SubOf(g, i).start.n * k =
                               (segments[g].start * k + i * span) * SubOf(g, i).start.d
                        /\ SubOf(g, i).end.n * k =
                               (segments[g].start * k + (i + 1) * span) * SubOf(g, i).end.d
                        /\ Split(SubOf(g, i).text) =
                               SubSeq(words, i * max_words_per_subtitle + 1,
                                      Min((i + 1) * max_words_per_subtitle, n))
                        /\ RatEq(RatMinus(SubOf(g, i).end, SubOf(g, i).start),
                                 RatMinus(SubOf(g, 0).end, SubOf(g, 0).start))
                        /\ i < k - 1 => RatEq(SubOf(g, i).end, SubOf(g, i + 1).start)
                    /\ RatEq(SubOf(g, 0).start, Rat(segments[g].start, 1))
                    /\ RatEq(SubOf(g, k - 1).end, Rat(segments[g].end, 1))
                    /\ Flatten([j \in 1..k |-> Split(SubOf(g, j - 1).text)]) = words
           /\ (segments = EightWords /\ max_words_per_subtitle = 4)
                => /\ Len(tl_subtitles) = 2
                   /\ \A j \in 1..2 :
                        /\ RatEq(RatMinus(tl_subtitles[j].end, tl_subtitles[j].start),
                                 Rat(1000, 1))
                        /\ Len(Split(tl_subtitles[j].text)) = 4

C9_Witness ==
    /\ SplitDone
    /\ max_words_per_subtitle = 2
    /\ Len(segments) = 2
    /\ Len(Split(segments[1].text)) = 5
    /\ segments[1].start < segments[1].end
    /\ Len(tl_subtitles) > 3

\* the string is "<frames>/<rate>s"
IsRationalTime(str, frames, rate) ==
    \E p \in 2..(Len(str) - 2) :
        /\ str[p] = "/"
        /\ IsNumeral(SubSeq(str, 1, p - 1))
        /\ StrToInt(SubSeq(str, 1, p - 1)) = frames
        /\ IsNumeral(SubSeq(str, p + 1, Len(str) - 1))
        /\ StrToInt(SubSeq(str, p + 1, Len(str) - 1)) = rate
        /\ str[Len(str)] = "s"

\* C10: create_fcpxml emits one title per subtitle, in input order, with
\* offset "<start_frames>/<frame_rate>s" and duration
\* "<duration_frames>/<frame_rate>s", start_frames = floor(start *
\* frame_rate), duration_frames = floor((end - start) * frame_rate); at
\* frame rate 30 a subtitle from 0.0 to 1.0 gets "0/30s" and "30/30s".
C10_TitlePerSubtitle ==
    tl_pc = "written"
        => /\ Len(fcpxml.spine) = Len(tl_subtitles)
           /\ \A j \in 1..Len(tl_subtitles) :
                LET sub == tl_subtitles[j]
                    title == fcpxml.spine[j]
                IN  /\ title.text = sub.text
                    /\ IsRationalTime(title.offset,
                           FloorDiv(sub.start.n * framerate, sub.start.d * 1000),
                           framerate)
                    /\ IsRationalTime(title.duration,
                           FloorDiv((sub.end.n * sub.start.d - sub.start.n * sub.end.d)
                                        * framerate,
                                    sub.end.d * sub.start.d * 1000),
                           framerate)
                    /\ (framerate = 30 /\ RatEq(sub.start, Rat(0, 1))
                            /\ RatEq(sub.end, Rat(1000, 1)))
                        => /\ title.offset = <<"0", "/", "3", "0", "s">>
                           /\ title.duration = <<"3", "0", "/", "3", "0", "s">>

C10_Witness ==
    /\ tl_pc = "written"
    /\ segments = EightWords
    /\ max_words_per_subtitle = 4
    /\ framerate = 30
    /\ Len(fcpxml.spine) = 2
    /\ fcpxml.spine[1].duration = <<"3", "0", "/", "3", "0", "s">>

-----------------------------------------------------------------------------
(* Properties of the upload service *)

\* max_words outside [1, 20], or framerate not in (0, 120]
InvalidConfiguration(req) ==
    \/ ~(MinMaxWords <= FormMaxWords(req) /\ FormMaxWords(req) <= MaxMaxWords)
    \/ ~(FloatGt(FormFramerate(req), 0)
         /\ FloatLeq(FormFramerate(req), MaxFramerate))

\* C8: an upload whose max_words is outside [1, 20] or whose framerate is not
\* in (0, 120] is answered 400 and issues no job id, creates no entry in
\* processing_status or completed_files and starts no worker.  Refuted: the
\* text "nan" parses as a float for which both comparisons of line 376 are
\* false, so the upload is accepted and its thread is started.
C8_InvalidUploadRejected ==
    [][(response'.op = "upload" /\ InvalidConfiguration(response'.request))
        => /\ response'.code = 400
           /\ response'.job_id = 0
           /\ UNCHANGED <<processing_status, completed_files, thread,
                          next_job_id>>]_vars

\* C13: for the empty unit list the grouper returns the empty sequence and
\* the renderer, applied to it, returns the empty string; neither fails.
C13_EmptyInEmptyOut ==
    words_with_timing = <<>> =>
        /\ pc \in {"group", "srt", "done"}
        /\ subtitles = <<>>
        /\ srt_content = <<>>

\* the empty list has gone through the grouper and the renderer
C13_Witness ==
    /\ words_with_timing = <<>>
    /\ pc = "done"
    /\ subtitles = <<>>
    /\ srt_content = <<>>

\* C14: for a word list that meets the transcription contract and
\* max_words >= 1, every subtitle built by the grouper has start <= end.
\* (That the end of a subtitle may lie after the start of the next one is
\* what C14_Witness reaches.)
C14_StartBeforeEnd ==
    (MeetsContract(words_with_timing) /\ max_words >= 1) =>
        \A j \in 1..Len(subtitles) :
            TimeLeq(subtitles[j].start_time, subtitles[j].end_time)

\* the grouper has returned two subtitles of which the first ends after the
\* second starts: the overlap of the units is passed through
C14_Witness ==
    /\ MeetsContract(words_with_timing)
    /\ max_words > 1
    /\ pc = "done"
    /\ \E j \in 1..(Len(subtitles) - 1) :
           /\ TimeLeq(subtitles[j].start_time, subtitles[j].end_time)
           /\ ~TimeLeq(subtitles[j].end_time, subtitles[j + 1].start_time)

-----------------------------------------------------------------------------
(* Properties of the renderers called on their own *)

RatLeq(r1, r2) == r1.n * r2.d <= r2.n * r1.d

\* C11: neither renderer emits output for a subtitle whose end is before its
\* start.  Refuted: create_srt_content and create_fcpxml test nothing and
\* raise nothing; the SRT block carries the reversed range and the title a
\* negative duration.
C11_MalformedNeverRendered ==
    /\ pc \in {"srt", "done"} =>
          \A j \in 1..Len(subtitles) :
              j < idx => TimeLeq(subtitles[j].start_time, subtitles[j].end_time)
    /\ tl_pc \in {"titles", "written"} =>
          \A j \in 1..Len(tl_subtitles) :
              j < tl_idx => RatLeq(tl_subtitles[j].start, tl_subtitles[j].end)

\* the document as a function of the two arguments of create_fcpxml alone
FcpDocument(subs, fr) ==
    [FcpSkeleton(fr) EXCEPT
        !.spine = [j \in 1..Len(subs) |-> Title(subs[j], fr)]]

\* the attributes of a title element, in the order of lines 71-77, and its text
TitleAttributes ==
    <<"name", "lane", "offset", "duration", "start", "role", "ref">>

-----------------------------------------------------------------------------
(* Properties of the whole service *)

NoSpeechStatus ==
    [status |-> "error", message |-> "No speech detected in audio file"]

\* the transcription of job j supplied no timed unit
NothingTranscribed(j) == j \in DOMAIN thread /\ thread[j].words \in {"empty", "none"}

\* C12: when the transcription supplies no timed unit, the job never reaches
\* the grouper, the renderer or the store, it has no entry in completed_files,
\* and from the test of line 283 onwards its status is the error "No speech
\* detected in audio file".
C12_NoSpeechOutcome ==
    \A j \in Jobs :
        NothingTranscribed(j) =>
            /\ thread[j].pc \in {"check", "finally_wav", "finally_file", "done"}
            /\ ~thread[j].exc
            /\ ~HasFile(completed_files, j)
            /\ thread[j].pc # "check" =>
                  (HasStatus(j) /\ processing_status[j] = NoSpeechStatus)

\* a job with an empty transcription has run to its end
C12_Witness ==
    \E j \in Jobs :
        /\ NothingTranscribed(j)
        /\ thread[j].words = "empty"
        /\ thread[j].pc = "done"
        /\ processing_status[j] = NoSpeechStatus
        /\ now > 0

\* job j was issued by upload_file and its result was never stored, so the
\* sweep, which removes only jobs found in completed_files, never removed it
IssuedNeverStored(j) ==
    /\ j \in DOMAIN thread
    /\ thread[j].pc \in {"start", "convert", "transcribe", "check", "store"}

\* C15: a status lookup for a job id that upload_file has returned, and that
\* the sweep has not removed, finds an entry.  Refuted: the entry is created
\* by the first statement of process_audio (line 272), not by upload_file, so
\* a lookup that runs before the thread does is answered 404 "Job not found".
C15_StatusFromSubmission ==
    (response.op = "status" /\ IssuedNeverStored(response.job_id))
        => response.code = 200

\* job j wrote its final status (completed or error) more than an hour
\* before the instant t
LongEnded(j, t) ==
    /\ j \in DOMAIN thread
    /\ thread[j].ended >= 0
    /\ t - thread[j].ended > MaxAgeTicks

\* cleanup_old_files has gone through its two loops and is about to return
SweepOver == cleanup_pc = "remove" /\ to_remove = <<>>

\* C16: when a pass of cleanup_old_files ends, no job that reached a final
\* status more than an hour before the pass began is left in
\* processing_status or completed_files.  Refuted: the pass removes only the
\* jobs it finds in completed_files, where a job that ended in error never
\* is, so the status entry of a failed job is never removed.
C16_SweepTearsDown ==
    SweepOver =>
        \A j \in Jobs :
            LongEnded(j, cleanup_time) =>
                (~HasStatus(j) /\ ~HasFile(completed_files, j))

\* C18: a job whose status is completed has its result in completed_files,
\* and a job whose status is error or processing has none.  Refuted: the
\* worker stores the result (line 292) before it writes the completed status
\* (line 300), and the sweep pops the result (line 444) before it pops the
\* status (line 445); between the two statements the registries disagree.
C18_StatusAgreesWithFiles ==
    \A j \in Jobs :
        HasStatus(j) =>
            /\ processing_status[j].status = "completed"
                   => HasFile(completed_files, j)
            /\ processing_status[j].status \in {"error", "processing"}
                   => ~HasFile(completed_files, j)

FinalStatus(j) ==
    HasStatus(j) /\ processing_status[j].status \in {"completed", "error"}

\* the thread of job j has been started and has not run yet
Started(j) == j \in DOMAIN thread /\ thread[j].pc = "start"

C20_SweepSurvivesInsertion == cleanup_pc # "dead"

-----------------------------------------------------------------------------
(* Properties of the transcription step *)

\* the whisper invocation produced the word list of the recording
WhisperYields == whisper_available /\ whisper_run.outcome = "json"

\* the transcription step has handed its result to process_audio
Transcribed == tr_pc \in {"returned", "done"}

NoSpeechReported ==
    /\ job_status.status = "error"
    /\ job_status.message = "No speech detected in audio file"

\* C21: whenever the whisper invocation does not yield a word list (tool
\* missing, error exit, timeout, no JSON file), the transcription step
\* returns what the fallback transcription returned: it never returns None,
\* and 'No speech detected' is never reported without the fallback having
\* been tried.
C21_FallbackOnWhisperFailure ==
    /\ (Transcribed /\ ~WhisperYields) =>
            /\ fallback_called
            /\ returned = Returned("list", fallback_words)
    /\ (NoSpeechReported /\ ~WhisperYields) => fallback_called

\* the total length of the first n chunks
RECURSIVE SumLen(_, _)
SumLen(cs, n) == IF n = 0 THEN 0 ELSE SumLen(cs, n - 1) + cs[n].len

\* the words ws divide the interval [from, from + span] into equal parts
EvenlySpread(ws, from, span) ==
    \A k \in 1..Len(ws) :
        /\ RatEq(ws[k].start, Rat(from * Len(ws) + (k - 1) * span, Len(ws)))
        /\ RatEq(ws[k].end, Rat(from * Len(ws) + k * span, Len(ws)))

\* the contract of the grouper's input: start <= end, starts non-decreasing
UnitsInOrder(ws) ==
    /\ \A k \in 1..Len(ws) : RatLeq(ws[k].start, ws[k].end)
    /\ \A k \in 1..(Len(ws) - 1) : RatLeq(ws[k].start, ws[k + 1].start)

\* a step of the fallback's loop that processes a chunk
ChunkProcessed == tr_pc = "chunks" /\ chunk_i' = chunk_i + 1

\* the words the step appended
NewWords ==
    SubSeq(fallback_words', Len(fallback_words) + 1, Len(fallback_words'))

\* C22: the fallback's units meet the input contract: current_time advances
\* by the duration of every processed chunk, recognised or not; the words of
\* chunk c are spread evenly over [total duration of the chunks before c,
\* that total + duration of c]; so the starts of the emitted words never
\* decrease and every word has start <= end.
C22_FallbackMeetsContract ==
    /\ [][ChunkProcessed =>
            current_time' = current_time + chunks[chunk_i + 1].len]_vars
    /\ [][ChunkProcessed =>
            EvenlySpread(NewWords, SumLen(chunks, chunk_i),
                         chunks[chunk_i + 1].len)]_vars
    /\ [](UnitsInOrder(fallback_words)
           /\ (returned.kind = "list" /\ fallback_called
                  => UnitsInOrder(returned.words)))

\* the words of the first n chunks of the recording, as the loop body
\* produces them for chunks that begin where the earlier ones end
RECURSIVE WordsOfLeading(_)
WordsOfLeading(n) ==
    IF n = 0 THEN <<>>
    ELSE WordsOfLeading(n - 1)
            \o ChunkWords(program, whisper_available, chunks[n], n - 1,
                          SumLen(chunks, n - 1))

\* the number of leading chunks the fallback is said to process
StatedCap == IF program = "app.py" THEN 20 ELSE 10

\* C23: the fallback processes only the first 20 (app.py) or 10
\* (app_fallback.py) chunks and silently drops the rest: for a longer
\* recording the result holds the words of those leading chunks and of no
\* later chunk, it is returned as an ordinary list (no error, no warning),
\* and a job with words ends with the plain status 'completed'.
C23_SilentTruncation ==
    (tr_pc = "done" /\ fallback_called /\ Len(chunks) > StatedCap) =>
        /\ returned = Returned("list", WordsOfLeading(StatedCap))
        /\ (returned.words # <<>> => job_status = [status |-> "completed"])

=============================================================================
